---------------------------- MODULE Spec2Model ----------------------------
(***************************************************************************)
(* Model of the .puz header parser of formats/puz/src/lib.rs.              *)
(*                                                                         *)
(* parse_a_puz is modelled statement by statement: pc is the position of   *)
(* the call inside the function body, the other variables are its locals.  *)
(* Bytes are naturals 0..255, a slice is a sequence (Rust index k is TLA+  *)
(* index k+1), Option is a sequence of length 0 (None) or 1 (Some).        *)
(***************************************************************************)
EXTENDS Naturals, Integers, Sequences, FiniteSets, TLC

VARIABLES
    puz_bytes,      \* the argument of parse_a_puz
    pc,             \* position in parse_a_puz / get_puz_start_offset
    i,              \* loop variable of get_puz_start_offset
    checks,         \* number of windows get_puz_start_offset has looked at
    start_offset,   \* Option<usize>: the Ok value of get_puz_start_offset
    preamble,       \* Option<Vec<u8>>
    reader,         \* Cursor over &puz_bytes[start_offset..]
    file,           \* the locals that become the fields of PuzFile
    rest,           \* Option of the slice `rest` (its first index and its bytes)
    result,         \* Option of what parse_a_puz returned
    call,           \* Option of a direct call of one of the try_from conversions
    first,          \* two-call scenario: the PuzFile of the first call
    prefix          \* two-call scenario: the bytes put in front for the second call

vars == <<puz_bytes, pc, i, checks, start_offset, preamble, reader, file, rest,
          result, call, first, prefix>>

---------------------------------------------------------------------------
(* Option *)

None == <<>>

Some(x) == <<x>>

IsSome(o) == Len(o) = 1

Unwrap(o) == o[1]

(* Rust slices: b[from..to] is the half-open range of 0-based indices. *)

Slice(b, from, to) == SubSeq(b, from + 1, to)

---------------------------------------------------------------------------
(* Bounds of the input family *)

\* longest run of arbitrary bytes put before the header
MaxJunk == 2

\* longest run of filler bytes after the header
MaxBody == 2

---------------------------------------------------------------------------
(* const FILE_MAGIC: &[u8; 12] = b"ACROSS&DOWN\0" *)

FILE_MAGIC == <<65, 67, 82, 79, 83, 83, 38, 68, 79, 87, 78, 0>>

---------------------------------------------------------------------------
(* The input family: buffers laid out as the format lays a file out, with  *)
(* every field drawn from a few values, cut at every length.               *)

\* bytes that may precede the file: 0x00 and 'A', the first byte of the marker
JunkByte == {0, 65}

JunkRuns == UNION {[1..n -> JunkByte] : n \in 0..MaxJunk}

\* the marker at buffer offset 0, and an earlier full marker at offset 2
Preambles == JunkRuns \cup {FILE_MAGIC, <<7, 9>> \o FILE_MAGIC}

\* the marker, and the marker without its NUL terminator
Markers == {FILE_MAGIC, <<65, 67, 82, 79, 83, 83, 38, 68, 79, 87, 78, 1>>}

\* "1.3\0", "9.0c", "1,3\0", ":.3\0", "0./\0"
VersionBytes == {<<49, 46, 51, 0>>, <<57, 46, 48, 99>>, <<49, 44, 51, 0>>,
                 <<58, 46, 51, 0>>, <<48, 46, 47, 0>>}

\* raw scrambled checksum 0x0000 and 0x1234
ScrambledBytes == {<<0, 0>>, <<52, 18>>}

\* 0x0001, 0x0401, 0x0100 (0x0001 read high byte first), 0x0400
PuzzleTypeBytes == {<<1, 0>>, <<1, 4>>, <<0, 1>>, <<0, 4>>}

\* 0x0000, 0x0002, 0x0004, 0x0006, 0x0200 (0x0002 read high byte first)
SolutionTypeBytes == {<<0, 0>>, <<2, 0>>, <<4, 0>>, <<6, 0>>, <<0, 2>>}

\* what follows the header: filler, or filler and a second marker
Bodies == {[k \in 1..n |-> 200 + k] : n \in 0..MaxBody}
              \cup {<<201, 202>> \o FILE_MAGIC}

\* checksum 0xBEEF .. clue count 142; every fixed byte differs from its neighbours
Layout(pre, mg, f, body) ==
    pre \o <<239, 190>> \o mg \o <<205, 171>>
        \o <<101, 102, 103, 104, 105, 106, 107, 108>>
        \o f[1] \o <<111, 112>> \o f[2]
        \o <<121, 122, 123, 124, 125, 126, 127, 128, 129, 130, 131, 132>>
        \o <<15, 13>> \o <<142, 0>> \o f[3] \o f[4] \o body

\* version, scrambled checksum, puzzle type, solution type
FieldVariants ==
    VersionBytes \X ScrambledBytes \X PuzzleTypeBytes \X SolutionTypeBytes

\* "1.3\0", no scrambled checksum, puzzle type 0x0001, solution type 0x0000
BaseFields == <<<<49, 46, 51, 0>>, <<0, 0>>, <<1, 0>>, <<0, 0>>>>

\* every field variant right at the start of the buffer and after two bytes;
\* every preamble and marker with the base fields
Layouts ==
    {Layout(pre, FILE_MAGIC, f, body) :
        <<pre, f, body>> \in {<<>>, <<0, 65>>} \X FieldVariants \X Bodies}
    \cup
    {Layout(pre, mg, BaseFields, body) :
        <<pre, mg, body>> \in Preambles \X Markers \X Bodies}

\* a file cut at every length
Truncations(b) == {SubSeq(b, 1, n) : n \in 0..Len(b)}

Inputs == UNION {Truncations(b) : b \in Layouts}

---------------------------------------------------------------------------
(* Result and ParsePuzError *)

Ok(x) == [ok |-> TRUE, value |-> x]

Err(e) == [ok |-> FALSE, error |-> e]

NotAPuz == [kind |-> "NotAPuz"]

UnexpectedVersionFormat(b0, b1, b2, b3) ==
    [kind |-> "UnexpectedVersionFormat", bytes |-> <<b0, b1, b2, b3>>]

UnknownPuzzleType(code) == [kind |-> "UnknownPuzzleType", code |-> code]

UnknownSolutionType(code) == [kind |-> "UnknownSolutionType", code |-> code]

\* Malformed(#[from] std::io::Error): the conversion `?` applies to a failed read
Malformed(e) == [kind |-> "Malformed", source |-> e]

---------------------------------------------------------------------------
(* impl TryFrom<u16> for PuzzleType *)

PuzzleType_try_from(value) ==
    CASE value = 1    -> Ok("Normal")
      [] value = 1025 -> Ok("Diagramless")
      [] OTHER        -> Err(UnknownPuzzleType(value))

\* mutant: the solution type is matched by its flag bits, not exactly
SolutionType_try_from_masked(value) ==
    CASE (value \div 4) % 2 = 1 -> Ok("Scrambled")
      [] (value \div 2) % 2 = 1 -> Ok("Missing")
      [] value = 0              -> Ok("Normal")
      [] OTHER                  -> Err(UnknownSolutionType(value))

(* impl TryFrom<u16> for SolutionType *)

SolutionType_try_from(value) ==
    CASE value = 0 -> Ok("Normal")
      [] value = 2 -> Ok("Missing")
      [] value = 4 -> Ok("Scrambled")
      [] OTHER     -> Err(UnknownSolutionType(value))

(* impl From<u16> for Crc16Checksum: the newtype around the value *)

Crc16Checksum(value) == [crc16 |-> value]

\* mutant: the upper end of the digit range is off by one (':' passes)
is_ascii_digit_through_colon(b) == 48 <= b /\ b <= 58

\* mutant: the lower end of the digit range is off by one ('/' passes)
is_ascii_digit_from_slash(b) == 47 <= b /\ b <= 57

(* u8::is_ascii_digit: b'0'..=b'9' *)

is_ascii_digit(b) == 48 <= b /\ b <= 57

(* `ext as char`: the character whose code point is the byte *)

as_char(b) == [char |-> b]

(* u8 - u8 as the mathematical difference: a value below zero stands for   *)
(* the overflow, which panics in a debug build and wraps in a release one  *)
(* (see ReadVersion).                                                      *)

u8_sub(a, b) == a - b

(* impl TryFrom<[u8; 4]> for PuzVersion *)

PuzVersion_try_from(bytes) ==
    LET major == bytes[1]
        dot   == bytes[2]
        minor == bytes[3]
        ext   == bytes[4]
    IN  IF is_ascii_digit(major) /\ dot = 46 /\ is_ascii_digit(minor)
        THEN Ok([major     |-> u8_sub(major, 48),
                 minor     |-> u8_sub(minor, 48),
                 extension |-> IF ext = 0 THEN None ELSE Some(as_char(ext))])
        ELSE Err(UnexpectedVersionFormat(major, dot, minor, ext))

---------------------------------------------------------------------------
(* <[u8]>::get(from..to): None when the range does not lie in the slice *)

slice_get(b, from, to) ==
    IF from <= to /\ to <= Len(b) THEN Some(Slice(b, from, to)) ELSE None

\* mutant: the window starts at the loop index, the two checksum bytes forgotten
window_without_checksum(b, n) == slice_get(b, n, n + 12)

\* mutant: the window is one byte short of the marker
window_short(b, n) == slice_get(b, n + 2, n + 13)

(* the range of the window looked at for loop index n: (n + 2)..(n + 14) *)

window(b, n) == slice_get(b, n + 2, n + 14)

(* std::io::Cursor over a byte slice *)

Cursor_new(inner) == [inner |-> inner, pos |-> 0]

\* Seek::seek(SeekFrom::Current(n)), n >= 0: moves the position, past the end too
seek_current(r, n) == Ok([r EXCEPT !.pos = r.pos + n])

\* mutant: a read that ends exactly at the end of the buffer is refused
read_exact_strict(r, n) ==
    IF r.pos + n < Len(r.inner)
    THEN [ok |-> TRUE, value |-> Slice(r.inner, r.pos, r.pos + n),
          reader |-> [r EXCEPT !.pos = r.pos + n]]
    ELSE Err("UnexpectedEof")

\* Read::read_exact into an n-byte array: all n bytes or ErrorKind::UnexpectedEof
read_exact(r, n) ==
    IF r.pos + n <= Len(r.inner)
    THEN [ok |-> TRUE, value |-> Slice(r.inner, r.pos, r.pos + n),
          reader |-> [r EXCEPT !.pos = r.pos + n]]
    ELSE Err("UnexpectedEof")

\* mutant: high byte first
be_u16(bytes) == 256 * bytes[1] + bytes[2]

\* LittleEndian::read_u16: low byte first
le_u16(bytes) == bytes[1] + 256 * bytes[2]

\* ReadBytesExt::read_u16::<LittleEndian>
read_u16(r) ==
    LET x == read_exact(r, 2)
    IN  IF x.ok THEN [x EXCEPT !.value = le_u16(x.value)] ELSE x

\* ReadBytesExt::read_u8
read_u8(r) ==
    LET x == read_exact(r, 1)
    IN  IF x.ok THEN [x EXCEPT !.value = x.value[1]] ELSE x

---------------------------------------------------------------------------
(* parse_a_puz, one statement per action *)

\* the state at the entry of parse_a_puz(b)
Enter(b) ==
    /\ puz_bytes = b
    /\ pc = "get_puz_start_offset"
    /\ i = 0
    /\ checks = 0
    /\ start_offset = None
    /\ preamble = None
    /\ reader = None
    /\ file = <<>>
    /\ rest = None
    /\ result = None

\* `return r` / a failing `?`: the locals are dropped
Return(r) ==
    /\ pc' = "done"
    /\ result' = Some(r)
    /\ UNCHANGED <<file, reader>>

\* a panic (slice index out of range, arithmetic overflow, unreachable!())
Panic ==
    /\ pc' = "panic"
    /\ UNCHANGED <<file, reader, result>>

\* `let name = value;` after a read that left the cursor as rd
Let(name, value, rd, next) ==
    /\ pc' = next
    /\ file' = file @@ (name :> value)
    /\ reader' = rd
    /\ result' = result

\* one iteration of `for i in 0_usize..` in get_puz_start_offset
ScanStep ==
    /\ pc = "get_puz_start_offset"
    /\ checks' = checks + 1
    /\ LET sorry_sir_is_this_magic == window(puz_bytes, i) IN
         IF ~IsSome(sorry_sir_is_this_magic)
         THEN /\ Return(Err(NotAPuz))
              /\ UNCHANGED <<i, start_offset>>
         ELSE IF Unwrap(sorry_sir_is_this_magic) = FILE_MAGIC
         THEN /\ start_offset' = Some(i)
              /\ pc' = "preamble"
              /\ UNCHANGED <<i, file, reader, result>>
         ELSE /\ i' = i + 1
              /\ UNCHANGED <<pc, start_offset, file, reader, result>>
    /\ UNCHANGED <<puz_bytes, preamble, rest, call, first, prefix>>

\* mutant: the preamble takes the two checksum bytes along
preamble_range_with_checksum(b, s) == <<0, s + 2>>

\* &puz_bytes[0..start_offset]
preamble_range(b, s) == <<0, s>>

\* let preamble = if start_offset > 0 { Some(Vec::from(..)) } else { None };
TakePreamble ==
    /\ pc = "preamble"
    /\ LET s == Unwrap(start_offset)
           r == preamble_range(puz_bytes, s)
       IN  IF s > 0
           THEN IF IsSome(slice_get(puz_bytes, r[1], r[2]))
                THEN /\ preamble' = slice_get(puz_bytes, r[1], r[2])
                     /\ pc' = "cursor"
                     /\ UNCHANGED <<file, reader, result>>
                ELSE /\ Panic
                     /\ UNCHANGED preamble
           ELSE /\ preamble' = None
                /\ pc' = "cursor"
                /\ UNCHANGED <<file, reader, result>>
    /\ UNCHANGED <<puz_bytes, i, checks, start_offset, rest, call, first, prefix>>

\* mutant: the cursor is put over the whole buffer
reader_range_whole(b, s) == <<0, Len(b)>>

\* &puz_bytes[start_offset..]
reader_range(b, s) == <<s, Len(b)>>

\* let mut reader = Cursor::new(&puz_bytes[start_offset..]);
NewReader ==
    /\ pc = "cursor"
    /\ LET r == reader_range(puz_bytes, Unwrap(start_offset))
           inner == slice_get(puz_bytes, r[1], r[2])
       IN  IF IsSome(inner)
           THEN /\ reader' = Some(Cursor_new(Unwrap(inner)))
                /\ pc' = "checksum"
                /\ UNCHANGED <<file, result>>
           ELSE Panic
    /\ UNCHANGED <<puz_bytes, i, checks, start_offset, preamble, rest, call, first,
                   prefix>>

\* what the statements after Cursor::new leave alone
frame == <<puz_bytes, i, checks, start_offset, preamble, rest, call, first, prefix>>

\* let checksum: Crc16Checksum = reader.read_u16::<LittleEndian>()?.into();
ReadChecksum ==
    /\ pc = "checksum"
    /\ LET r == read_u16(Unwrap(reader)) IN
         IF r.ok
         THEN Let("checksum", Crc16Checksum(r.value), Some(r.reader), "seek")
         ELSE Return(Err(Malformed(r.error)))
    /\ UNCHANGED frame

\* the length of the seek over the marker
seek_len == 12

\* reader.seek(SeekFrom::Current(12))?;
SkipMagic ==
    /\ pc = "seek"
    /\ LET r == seek_current(Unwrap(reader), seek_len) IN
         IF r.ok
         THEN /\ reader' = Some(r.value)
              /\ pc' = "checksum_board_configuration"
              /\ UNCHANGED <<file, result>>
         ELSE Return(Err(Malformed(r.error)))
    /\ UNCHANGED frame

\* let checksum_board_configuration: Crc16Checksum = reader.read_u16::<LittleEndian>()?.into();
ReadChecksumBoardConfiguration ==
    /\ pc = "checksum_board_configuration"
    /\ LET r == read_u16(Unwrap(reader)) IN
         IF r.ok
         THEN Let("checksum_board_configuration", Crc16Checksum(r.value),
                  Some(r.reader), "masked_checksums")
         ELSE Return(Err(Malformed(r.error)))
    /\ UNCHANGED frame

\* let mut masked_checksums = [0_u8; 8]; reader.read_exact(&mut masked_checksums)?;
ReadMaskedChecksums ==
    /\ pc = "masked_checksums"
    /\ LET r == read_exact(Unwrap(reader), 8) IN
         IF r.ok
         THEN Let("masked_checksums", r.value, Some(r.reader), "version")
         ELSE Return(Err(Malformed(r.error)))
    /\ UNCHANGED frame

\* let mut version_bytes = [0_u8; 4]; reader.read_exact(&mut version_bytes)?;
\* let version = version_bytes.try_into()?;
ReadVersion ==
    /\ pc = "version"
    /\ \E build \in {"debug", "release"} :
         LET r == read_exact(Unwrap(reader), 4) IN
           IF ~r.ok
           THEN Return(Err(Malformed(r.error)))
           ELSE LET v == PuzVersion_try_from(r.value) IN
                  IF ~v.ok
                  THEN Return(v)
                  ELSE IF v.value.major >= 0 /\ v.value.minor >= 0
                  THEN Let("version", v.value, Some(r.reader), "unknown_header_data_1")
                  ELSE IF build = "debug"
                  THEN Panic
                  ELSE Let("version",
                           [v.value EXCEPT !.major = v.value.major % 256,
                                           !.minor = v.value.minor % 256],
                           Some(r.reader), "unknown_header_data_1")
    /\ UNCHANGED frame

\* let mut unknown_header_data_1 = [0_u8; 2]; reader.read_exact(&mut unknown_header_data_1)?;
ReadUnknownHeaderData1 ==
    /\ pc = "unknown_header_data_1"
    /\ LET r == read_exact(Unwrap(reader), 2) IN
         IF r.ok
         THEN Let("unknown_header_data_1", r.value, Some(r.reader),
                  "checksum_scrambled")
         ELSE Return(Err(Malformed(r.error)))
    /\ UNCHANGED frame

\* if checksum_scrambled_raw == 0 { None } else { Some(checksum_scrambled_raw.into()) }
scrambled(checksum_scrambled_raw) ==
    IF checksum_scrambled_raw = 0
    THEN None
    ELSE Some(Crc16Checksum(checksum_scrambled_raw))

\* let checksum_scrambled_raw = reader.read_u16::<LittleEndian>()?;
\* let checksum_scrambled = if .. { None } else { Some(..) };
ReadChecksumScrambled ==
    /\ pc = "checksum_scrambled"
    /\ LET r == read_u16(Unwrap(reader)) IN
         IF r.ok
         THEN Let("checksum_scrambled", scrambled(r.value), Some(r.reader),
                  "unknown_header_data_2")
         ELSE Return(Err(Malformed(r.error)))
    /\ UNCHANGED frame

\* let mut unknown_header_data_2 = [0_u8; 12]; reader.read_exact(&mut unknown_header_data_2)?;
ReadUnknownHeaderData2 ==
    /\ pc = "unknown_header_data_2"
    /\ LET r == read_exact(Unwrap(reader), 12) IN
         IF r.ok
         THEN Let("unknown_header_data_2", r.value, Some(r.reader), "width")
         ELSE Return(Err(Malformed(r.error)))
    /\ UNCHANGED frame

\* let width = reader.read_u8()?;
ReadWidth ==
    /\ pc = "width"
    /\ LET r == read_u8(Unwrap(reader)) IN
         IF r.ok
         THEN Let("width", r.value, Some(r.reader), "height")
         ELSE Return(Err(Malformed(r.error)))
    /\ UNCHANGED frame

\* let height = reader.read_u8()?;
ReadHeight ==
    /\ pc = "height"
    /\ LET r == read_u8(Unwrap(reader)) IN
         IF r.ok
         THEN Let("height", r.value, Some(r.reader), "clue_count")
         ELSE Return(Err(Malformed(r.error)))
    /\ UNCHANGED frame

\* let clue_count = reader.read_u16::<LittleEndian>()?;
ReadClueCount ==
    /\ pc = "clue_count"
    /\ LET r == read_u16(Unwrap(reader)) IN
         IF r.ok
         THEN Let("clue_count", r.value, Some(r.reader), "puzzle_type")
         ELSE Return(Err(Malformed(r.error)))
    /\ UNCHANGED frame

\* let puzzle_type = reader.read_u16::<LittleEndian>()?.try_into()?;
ReadPuzzleType ==
    /\ pc = "puzzle_type"
    /\ LET r == read_u16(Unwrap(reader)) IN
         IF ~r.ok
         THEN Return(Err(Malformed(r.error)))
         ELSE LET t == PuzzleType_try_from(r.value) IN
                IF t.ok
                THEN Let("puzzle_type", t.value, Some(r.reader), "solution_type")
                ELSE Return(t)
    /\ UNCHANGED frame

\* let solution_type = reader.read_u16::<LittleEndian>()?.try_into()?;
ReadSolutionType ==
    /\ pc = "solution_type"
    /\ LET r == read_u16(Unwrap(reader)) IN
         IF ~r.ok
         THEN Return(Err(Malformed(r.error)))
         ELSE LET t == SolutionType_try_from(r.value) IN
                IF t.ok
                THEN Let("solution_type", t.value, Some(r.reader), "rest")
                ELSE Return(t)
    /\ UNCHANGED frame

\* the first index of `rest`: reader.position() as usize
rest_from(s, rd) == rd.pos

\* PuzFile { garbage: PuzGarbage { .. }, checksum, .. }
PuzFile(pre, f) ==
    [garbage |-> [preamble |-> pre,
                  unknown_header_data_1 |-> f.unknown_header_data_1,
                  unknown_header_data_2 |-> f.unknown_header_data_2],
     checksum |-> f.checksum,
     checksum_board_configuration |-> f.checksum_board_configuration,
     masked_checksums |-> f.masked_checksums,
     version |-> f.version,
     checksum_scrambled |-> f.checksum_scrambled,
     width |-> f.width,
     height |-> f.height,
     clue_count |-> f.clue_count,
     puzzle_type |-> f.puzzle_type,
     solution_type |-> f.solution_type]

\* let rest = &puz_bytes[(reader.position() as usize)..]; Ok(PuzFile { .. })
TakeRest ==
    /\ pc = "rest"
    /\ LET from == rest_from(Unwrap(start_offset), Unwrap(reader))
           bytes == slice_get(puz_bytes, from, Len(puz_bytes))
       IN  IF IsSome(bytes)
           THEN /\ rest' = Some([from |-> from, bytes |-> Unwrap(bytes)])
                /\ Return(Ok(PuzFile(preamble, file)))
           ELSE /\ Panic
                /\ UNCHANGED rest
    /\ UNCHANGED <<puz_bytes, i, checks, start_offset, preamble, call, first, prefix>>

parse_a_puz ==
    \/ ScanStep
    \/ TakePreamble
    \/ NewReader
    \/ ReadChecksum
    \/ SkipMagic
    \/ ReadChecksumBoardConfiguration
    \/ ReadMaskedChecksums
    \/ ReadVersion
    \/ ReadUnknownHeaderData1
    \/ ReadChecksumScrambled
    \/ ReadUnknownHeaderData2
    \/ ReadWidth
    \/ ReadHeight
    \/ ReadClueCount
    \/ ReadPuzzleType
    \/ ReadSolutionType
    \/ TakeRest

---------------------------------------------------------------------------
(* One call of parse_a_puz on a buffer of the input family *)

Init ==
    /\ \E b \in Inputs : Enter(b)
    /\ call = None
    /\ first = None
    /\ prefix = None

Next == parse_a_puz

Spec == Init /\ [][Next]_vars

---------------------------------------------------------------------------
(* The try_from conversions called directly, one call per behaviour *)

Byte == 0..255

U16 == 0..65535

\* every major and minor byte; '-', '.', '/' and NUL as dot; NUL, 'c', 0xFF as ext
VersionInputs == Byte \X {0, 45, 46, 47} \X Byte \X {0, 99, 255}

CallerInit ==
    /\ puz_bytes = <<>>
    /\ pc = "caller"
    /\ i = 0
    /\ checks = 0
    /\ start_offset = None
    /\ preamble = None
    /\ reader = None
    /\ file = <<>>
    /\ rest = None
    /\ result = None
    /\ call = None
    /\ first = None
    /\ prefix = None

Returned(fn, arg, ret) ==
    /\ pc' = "returned"
    /\ call' = Some([fn |-> fn, arg |-> arg, ret |-> ret])
    /\ UNCHANGED <<puz_bytes, i, checks, start_offset, preamble, reader, file, rest,
                   result, first, prefix>>

CallPuzVersion ==
    /\ pc = "caller"
    /\ \E bytes \in VersionInputs :
         Returned("PuzVersion::try_from", bytes, PuzVersion_try_from(bytes))

CallPuzzleType ==
    /\ pc = "caller"
    /\ \E value \in U16 :
         Returned("PuzzleType::try_from", value, PuzzleType_try_from(value))

CallSolutionType ==
    /\ pc = "caller"
    /\ \E value \in U16 :
         Returned("SolutionType::try_from", value, SolutionType_try_from(value))

NextConv == CallPuzVersion \/ CallPuzzleType \/ CallSolutionType

SpecConv == CallerInit /\ [][NextConv]_vars

---------------------------------------------------------------------------
(* Two calls: a buffer that starts with the file, then the same buffer     *)
(* with PrefixLen bytes put in front of it.                                *)

\* the number of bytes put in front
PrefixLen == 7

\* all runs of NUL and 'A', and every PrefixLen-byte stretch of NULs followed by
\* the marker twice (prefixes that end in a part of the marker)
Tape == [k \in 1..PrefixLen |-> 0] \o FILE_MAGIC \o FILE_MAGIC

Prefixes ==
    [1..PrefixLen -> JunkByte]
    \cup {SubSeq(Tape, a, a + PrefixLen - 1) : a \in 1..(Len(Tape) - PrefixLen + 1)}

\* files without preamble, whole, alone or followed by a second marker
PrefixInit ==
    /\ \E f \in FieldVariants, body \in {<<>>, <<201, 202>> \o FILE_MAGIC} :
         Enter(Layout(<<>>, FILE_MAGIC, f, body))
    /\ call = None
    /\ first = None
    /\ prefix = None

\* the second call, on the prefixed buffer, after the first returned Ok with no
\* preamble
Prepend ==
    /\ pc = "done"
    /\ first = None
    /\ IsSome(result) /\ Unwrap(result).ok
    /\ start_offset = Some(0)
    /\ \E p \in Prefixes :
         /\ prefix' = Some(p)
         /\ puz_bytes' = p \o puz_bytes
    /\ first' = Some(Unwrap(result).value)
    /\ pc' = "get_puz_start_offset"
    /\ i' = 0
    /\ checks' = 0
    /\ start_offset' = None
    /\ preamble' = None
    /\ reader' = None
    /\ file' = <<>>
    /\ rest' = None
    /\ result' = None
    /\ UNCHANGED call

NextPrefix == parse_a_puz \/ Prepend

SpecPrefix == PrefixInit /\ [][NextPrefix]_vars

\* parse_a_puz is straight-line code on one thread: a statement that can run, runs
SpecFair == Init /\ [][Next]_vars /\ WF_vars(Next)

---------------------------------------------------------------------------
(* Vocabulary of the properties, stated on the buffer itself *)

\* byte k of the buffer, k counted from 0
ByteAt(k) == puz_bytes[k + 1]

\* the bytes b[from..to) of the buffer
BytesAt(from, to) == [k \in 1..(to - from) |-> ByteAt(from + k - 1)]

\* the 16-bit number stored low byte first at b[k], b[k+1]
WordAt(k) == ByteAt(k) + 256 * ByteAt(k + 1)

\* the marker begins at buffer offset k
MarkerBeginsAt(k) ==
    /\ k + 12 <= Len(puz_bytes)
    /\ \A j \in 0..11 : ByteAt(k + j) = FILE_MAGIC[j + 1]

\* the marker occurs as b[n+2 .. n+14)
MarkerAfter(n) == MarkerBeginsAt(n + 2)

HasMarker == \E n \in 0..Len(puz_bytes) : MarkerAfter(n)

Done == pc = "done" /\ IsSome(result)

Succeeded == Done /\ Unwrap(result).ok

\* "Ok", or the name of the error returned
Outcome == IF Unwrap(result).ok THEN "Ok" ELSE Unwrap(result).error.kind

\* the 52 bytes the header takes from the start offset
HeaderLen == 2 + 12 + 2 + 8 + 4 + 2 + 2 + 12 + 1 + 1 + 2 + 2 + 2

---------------------------------------------------------------------------
(* C1: whenever the marker occurs as b[i+2 .. i+14) for some i >= 0, the   *)
(* scan returns Ok(i0) with i0 the smallest such i.                        *)

C1_FirstMarker ==
    (pc # "get_puz_start_offset" /\ HasMarker) =>
        /\ IsSome(start_offset)
        /\ MarkerAfter(Unwrap(start_offset))
        /\ \A j \in 0..(Unwrap(start_offset) - 1) : ~MarkerAfter(j)

\* the scan returned a nonzero offset from a buffer that holds a later marker too
C1_Witness ==
    /\ IsSome(start_offset)
    /\ Unwrap(start_offset) > 0
    /\ \E j \in (Unwrap(start_offset) + 1)..Len(puz_bytes) : MarkerAfter(j)

---------------------------------------------------------------------------
(* C2, as claimed: every buffer shorter than a complete header (also one   *)
(* in which the marker is found and the fields after it are cut off) and   *)
(* every buffer without the marker fails with NotAPuz.                     *)

---------------------------------------------------------------------------
(* C3: after a successful parse with start offset s every field is the     *)
(* value at its fixed place in the buffer, integers low byte first, the    *)
(* marker bytes b[s+2 .. s+14) give no field, and the cursor stands at 52. *)

C3_FieldLayout ==
    Succeeded =>
        LET s == Unwrap(start_offset)
            v == Unwrap(result).value
        IN  /\ DOMAIN v = {"garbage", "checksum", "checksum_board_configuration",
                           "masked_checksums", "version", "checksum_scrambled",
                           "width", "height", "clue_count", "puzzle_type",
                           "solution_type"}
            /\ DOMAIN v.garbage = {"preamble", "unknown_header_data_1",
                                   "unknown_header_data_2"}
            /\ v.checksum = [crc16 |-> WordAt(s)]
            /\ v.checksum_board_configuration = [crc16 |-> WordAt(s + 14)]
            /\ v.masked_checksums = BytesAt(s + 16, s + 24)
            /\ v.version.major = ByteAt(s + 24) - 48
            /\ ByteAt(s + 25) = 46
            /\ v.version.minor = ByteAt(s + 26) - 48
            /\ v.version.extension =
                 IF ByteAt(s + 27) = 0 THEN <<>> ELSE <<[char |-> ByteAt(s + 27)]>>
            /\ v.garbage.unknown_header_data_1 = BytesAt(s + 28, s + 30)
            /\ (v.checksum_scrambled = <<>>) <=> (WordAt(s + 30) = 0)
            /\ WordAt(s + 30) # 0 =>
                 v.checksum_scrambled = <<[crc16 |-> WordAt(s + 30)]>>
            /\ v.garbage.unknown_header_data_2 = BytesAt(s + 32, s + 44)
            /\ v.width = ByteAt(s + 44)
            /\ v.height = ByteAt(s + 45)
            /\ v.clue_count = WordAt(s + 46)
            /\ v.puzzle_type =
                 IF WordAt(s + 48) = 1 THEN "Normal" ELSE "Diagramless"
            /\ WordAt(s + 48) \in {1, 1025}
            /\ v.solution_type =
                 IF WordAt(s + 50) = 0 THEN "Normal"
                 ELSE IF WordAt(s + 50) = 2 THEN "Missing" ELSE "Scrambled"
            /\ WordAt(s + 50) \in {0, 2, 4}
            /\ Unwrap(reader).pos = HeaderLen

\* a successful parse behind a preamble, with a scrambled checksum and an extension
C3_Witness ==
    /\ Succeeded
    /\ Unwrap(start_offset) > 0
    /\ IsSome(Unwrap(result).value.checksum_scrambled)
    /\ IsSome(Unwrap(result).value.version.extension)
    /\ Unwrap(result).value.puzzle_type = "Diagramless"

---------------------------------------------------------------------------
(* C4: PuzVersion::try_from succeeds exactly when major and minor are      *)
(* ASCII digits and dot is '.', then gives major - '0' and minor - '0',    *)
(* both in 0..9, and extension None iff ext is 0, else Some(ext as char);  *)
(* on every other input it fails with UnexpectedVersionFormat carrying the *)
(* four bytes unchanged, in order.                                         *)

C4_VersionTotal ==
    (IsSome(call) /\ Unwrap(call).fn = "PuzVersion::try_from") =>
        LET a == Unwrap(call).arg
            r == Unwrap(call).ret
        IN  IF a[1] \in 48..57 /\ a[2] = 46 /\ a[3] \in 48..57
            THEN /\ r.ok
                 /\ r.value.major = a[1] - 48 /\ r.value.major \in 0..9
                 /\ r.value.minor = a[3] - 48 /\ r.value.minor \in 0..9
                 /\ (r.value.extension = <<>>) <=> (a[4] = 0)
                 /\ a[4] # 0 => r.value.extension = <<[char |-> a[4]]>>
            ELSE /\ ~r.ok
                 /\ r.error.kind = "UnexpectedVersionFormat"
                 /\ r.error.bytes = a

\* "9.0c" was converted: a version with an extension
C4_Witness ==
    /\ IsSome(call)
    /\ Unwrap(call).fn = "PuzVersion::try_from"
    /\ Unwrap(call).arg = <<57, 46, 48, 99>>
    /\ Unwrap(call).ret.ok

---------------------------------------------------------------------------
(* C5: the type conversions match the 16-bit code exactly: 0x0001 and      *)
(* 0x0401 are the puzzle types, 0x0000, 0x0002 and 0x0004 the solution     *)
(* types, and every other code fails with the error that carries the code. *)

C5_ExactCodes ==
    /\ (IsSome(call) /\ Unwrap(call).fn = "PuzzleType::try_from") =>
         LET code == Unwrap(call).arg
             r    == Unwrap(call).ret
         IN  CASE code = 1    -> r.ok /\ r.value = "Normal"
               [] code = 1025 -> r.ok /\ r.value = "Diagramless"
               [] OTHER       -> /\ ~r.ok
                                 /\ r.error.kind = "UnknownPuzzleType"
                                 /\ r.error.code = code
    /\ (IsSome(call) /\ Unwrap(call).fn = "SolutionType::try_from") =>
         LET code == Unwrap(call).arg
             r    == Unwrap(call).ret
         IN  CASE code = 0 -> r.ok /\ r.value = "Normal"
               [] code = 2 -> r.ok /\ r.value = "Missing"
               [] code = 4 -> r.ok /\ r.value = "Scrambled"
               [] OTHER    -> /\ ~r.ok
                              /\ r.error.kind = "UnknownSolutionType"
                              /\ r.error.code = code

\* the solution type code 0x0006, both flag bits set, was refused
C5_Witness ==
    /\ IsSome(call)
    /\ Unwrap(call).fn = "SolutionType::try_from"
    /\ Unwrap(call).arg = 6
    /\ ~Unwrap(call).ret.ok

---------------------------------------------------------------------------
(* C6, as claimed: after a successful parse the preamble is None iff the   *)
(* marker begins at buffer offset 0, and otherwise it is Some of the bytes *)
(* before the start offset.                                                *)

C6_NoneIffMarkerAtZero ==
    Succeeded =>
        LET s == Unwrap(start_offset)
            v == Unwrap(result).value
        IN  /\ (v.garbage.preamble = <<>>) <=> MarkerBeginsAt(0)
            /\ v.garbage.preamble # <<>> =>
                 v.garbage.preamble = <<BytesAt(0, s)>>

(* C6, amended: after a successful parse the preamble is None iff the      *)
(* start offset is 0, that is iff the marker begins at buffer offset 2,    *)
(* behind the two checksum bytes; otherwise it is Some of the bytes before *)
(* the start offset, in order and unchanged.                               *)

C6_NoneIffMarkerAtTwo ==
    Succeeded =>
        LET s == Unwrap(start_offset)
            v == Unwrap(result).value
        IN  /\ (v.garbage.preamble = <<>>) <=> MarkerBeginsAt(2)
            /\ (v.garbage.preamble = <<>>) <=> (s = 0)
            /\ v.garbage.preamble # <<>> =>
                 v.garbage.preamble = <<BytesAt(0, s)>>

\* a successful parse of a buffer that begins with the marker: the preamble is Some
C6_Witness ==
    /\ Succeeded
    /\ MarkerBeginsAt(0)
    /\ IsSome(Unwrap(result).value.garbage.preamble)

---------------------------------------------------------------------------
(* C7: after a successful parse with start offset s, zero or not, `rest`   *)
(* is the part of the buffer behind the last header field: it begins at    *)
(* index s + 52 and runs to the end.                                       *)

C7_RestFollowsHeader ==
    Succeeded =>
        LET s == Unwrap(start_offset)
        IN  rest = <<[from  |-> s + HeaderLen,
                      bytes |-> BytesAt(s + HeaderLen, Len(puz_bytes))]>>

---------------------------------------------------------------------------
(* C8: the first error in header order is the one returned, and a short    *)
(* read is Malformed: with the marker found at s in a buffer of length L,  *)
(* Malformed if L < s+28, else UnexpectedVersionFormat if the version      *)
(* bytes are invalid, else Malformed if L < s+50, else UnknownPuzzleType   *)
(* if the code at s+48 is unknown, else Malformed if L < s+52, else        *)
(* UnknownSolutionType if the code at s+50 is unknown, else Ok; an error   *)
(* comes with no record.                                                   *)

C8_Expected ==
    LET s == Unwrap(start_offset)
        L == Len(puz_bytes)
    IN  IF L < s + 28 THEN "Malformed"
        ELSE IF ~(/\ ByteAt(s + 24) \in 48..57
                  /\ ByteAt(s + 25) = 46
                  /\ ByteAt(s + 26) \in 48..57) THEN "UnexpectedVersionFormat"
        ELSE IF L < s + 50 THEN "Malformed"
        ELSE IF WordAt(s + 48) \notin {1, 1025} THEN "UnknownPuzzleType"
        ELSE IF L < s + 52 THEN "Malformed"
        ELSE IF WordAt(s + 50) \notin {0, 2, 4} THEN "UnknownSolutionType"
        ELSE "Ok"

C8_FirstError ==
    (Done /\ IsSome(start_offset)) =>
        /\ Outcome = C8_Expected
        /\ Outcome # "Ok" => DOMAIN Unwrap(result) = {"ok", "error"}
        /\ Outcome = "UnexpectedVersionFormat" =>
             Unwrap(result).error.bytes
                 = BytesAt(Unwrap(start_offset) + 24, Unwrap(start_offset) + 28)
        /\ Outcome = "UnknownPuzzleType" =>
             Unwrap(result).error.code = WordAt(Unwrap(start_offset) + 48)
        /\ Outcome = "UnknownSolutionType" =>
             Unwrap(result).error.code = WordAt(Unwrap(start_offset) + 50)

\* an invalid version reported from a buffer that is cut off before the type codes
C8_Witness ==
    /\ Done
    /\ IsSome(start_offset)
    /\ Outcome = "UnexpectedVersionFormat"
    /\ Len(puz_bytes) < Unwrap(start_offset) + 48

---------------------------------------------------------------------------
(* C9: a buffer that parses with no preamble, with PrefixLen arbitrary     *)
(* bytes p put in front of it, parses again, to the same record except     *)
(* that the preamble is Some(p); the scan matches at offset PrefixLen.     *)

C9_PrefixInvariance ==
    (pc = "done" /\ IsSome(first)) =>
        /\ IsSome(result)
        /\ Unwrap(result).ok
        /\ start_offset = <<PrefixLen>>
        /\ Unwrap(first).garbage.preamble = <<>>
        /\ Unwrap(result).value
             = [Unwrap(first) EXCEPT !.garbage.preamble = prefix]
        /\ Unwrap(result).value.garbage.preamble
             = <<SubSeq(puz_bytes, 1, PrefixLen)>>

\* the second call returned for a prefix that ends in the first bytes of the marker
C9_Witness ==
    /\ pc = "done"
    /\ IsSome(first)
    /\ IsSome(result)
    /\ Unwrap(prefix)[PrefixLen] = 67
    /\ Unwrap(prefix)[PrefixLen - 1] = 65

---------------------------------------------------------------------------
(* C10: parse_a_puz returns on every buffer and never panics: the scan     *)
(* looks at no more than max(1, len - 12) windows, a returned offset s has *)
(* s + 14 <= len, every slice taken lies in the buffer, and the version    *)
(* digits are in 0..9 (no subtraction went below zero).                    *)

C10_Safe ==
    /\ pc \notin {"panic", "unreachable"}
    /\ checks <= (IF Len(puz_bytes) - 12 > 1 THEN Len(puz_bytes) - 12 ELSE 1)
    /\ IsSome(start_offset) => Unwrap(start_offset) + 14 <= Len(puz_bytes)
    /\ IsSome(preamble) => Unwrap(preamble) = BytesAt(0, Unwrap(start_offset))
    /\ IsSome(reader) =>
         Unwrap(reader).inner = BytesAt(Unwrap(start_offset), Len(puz_bytes))
    /\ IsSome(rest) => Unwrap(rest).from <= Len(puz_bytes)
    /\ "version" \in DOMAIN file =>
         file.version.major \in 0..9 /\ file.version.minor \in 0..9

C10_Terminates == []C10_Safe /\ <>(pc = "done" /\ IsSome(result))

\* the scan ran to the end of a buffer longer than a whole header and the call returned
C10_Witness ==
    /\ Done
    /\ Len(puz_bytes) > HeaderLen
    /\ checks = Len(puz_bytes) - 12

============================================================================
